---- MODULE Spec2Model ----
(***************************************************************************)
(* modify_pio_registry_mirror.py: one run of the script probes PlatformIO  *)
(* for its interpreter, resolves platformio/__init__.py under the penv,    *)
(* reads it, appends two configuration lines and writes it back.           *)
(*                                                                         *)
(* Text is a sequence of one-character strings; a path is the sequence of  *)
(* its components ("/" first).  A file on disk holds raw characters: the   *)
(* text-mode open() of lines 31 and 38 translates line endings on the way  *)
(* in and on the way out.                                                  *)
(***************************************************************************)
EXTENDS Naturals, Sequences, FiniteSets

(* ------------------------------ bounds -------------------------------- *)

MaxLen == 1          \* longest user string (sys.argv[1])
MaxContentLen == 1   \* longest initial file content
MaxArgs == 2         \* most command-line arguments after the script name
MaxRuns == 2         \* sequential runs of the script
MaxPartial == 2      \* most characters that reach the disk when a write fails

Procs == {1, 2}

(* ------------------------------ text ---------------------------------- *)

RECURSIVE SeqsUpTo(_, _)
SeqsUpTo(A, n) ==
    IF n = 0 THEN {<<>>}
    ELSE LET S == SeqsUpTo(A, n - 1)
         IN  S \cup {Append(s, a) : s \in {t \in S : Len(t) = n - 1}, a \in A}

UserAlphabet == {"a", "'"}
ContentAlphabet == {"#", "\r", "\n"}

UserStrings == SeqsUpTo(UserAlphabet, MaxLen)
Contents == SeqsUpTo(ContentAlphabet, MaxContentLen)

\* The argument lists: none, one user string, or several (the script reads
\* no argument of a list of several, so one string repeated stands for all).
Argvs == {[i \in 1..n |-> S] : n \in 0..MaxArgs, S \in UserStrings}

IsPrefix(s, t) == Len(s) <= Len(t) /\ SubSeq(t, 1, Len(s)) = s

\* The text before the replacement field in lines 34 and 35.
MirrorPrefix ==
    <<"_", "_", "r", "e", "g", "i", "s", "t", "r", "y", "_", "m", "i", "r", "r",
      "o", "r", "_", "h", "o", "s", "t", "s", "_", "_", " ", "=", " ", "[">>

CheckPrefix ==
    <<"_", "_", "c", "h", "e", "c", "k", "_", "i", "n", "t", "e", "r", "n", "e",
      "t", "_", "h", "o", "s", "t", "s", "_", "_", " ", "=", " ", "[">>

\* Line 34: f'__registry_mirror_hosts__ = [${new_content}]'.  In an f-string
\* only {new_content} is a replacement field: the "$" before it is literal.
mirror_config(new_content) == MirrorPrefix \o <<"$">> \o new_content \o <<"]">>

\* Line 35: f'__check_internet_hosts__ = [${new_content}]'.
check_config(new_content) == CheckPrefix \o <<"$">> \o new_content \o <<"]">>

\* Line 36: what is appended to the text that was read.
Block(new_content) ==
    <<"\n">> \o mirror_config(new_content) \o <<"\n">>
             \o check_config(new_content) \o <<"\n">>

IsSuffix(s, t) == Len(s) <= Len(t) /\ SubSeq(t, Len(t) - Len(s) + 1, Len(t)) = s

\* NewContent, had it skipped a block that is already there.
NewContentOnce(content, new_content) ==
    IF IsSuffix(Block(new_content), content) THEN content
    ELSE content \o Block(new_content)

\* Line 36: content = content + '\n' + mirror_config + '\n' + check_config + '\n'
NewContent(content, new_content) == content \o Block(new_content)

\* Lines 31-32: open(init_path, 'r').read() is a text-mode read with
\* newline=None: "\r\n" and a lone "\r" both arrive as "\n".  The "\n" of a
\* "\r\n" is dropped, every "\r" left becomes "\n".
ReadText(data) ==
    LET kept == SelectSeq([i \in 1..Len(data) |-> i],
                          LAMBDA i : ~(data[i] = "\n" /\ i > 1 /\ data[i - 1] = "\r"))
    IN  [j \in 1..Len(kept) |-> IF data[kept[j]] = "\r" THEN "\n" ELSE data[kept[j]]]

\* Lines 38-39: a text-mode write with newline=None writes os.linesep for "\n".
RECURSIVE WriteText(_, _)
WriteText(text, linesep) ==
    IF text = <<>> THEN <<>>
    ELSE IF Len(text) = 1 THEN (IF text[1] = "\n" THEN linesep ELSE text)
    ELSE LET h == Len(text) \div 2
         IN  WriteText(SubSeq(text, 1, h), linesep)
             \o WriteText(SubSeq(text, h + 1, Len(text)), linesep)

LineSeps == {<<"\n">>, <<"\r", "\n">>}

(* ------------------------------ paths --------------------------------- *)

\* Path.parent: the path without its last component; the root is its own parent.
Parent(path) == IF Len(path) <= 1 THEN path ELSE SubSeq(path, 1, Len(path) - 1)

\* Path(a, 'x', 'y'): the components joined.
Join(path, parts) == path \o parts

Interpreters ==
    { <<"/", "opt", "env", ".platformio", "penv", "bin", "python">>,
      <<"/", "python">> }

\* Line 19: penv_path = python_path.parent.parent
PenvPath(python_path) == Parent(Parent(python_path))

\* LibPath, had line 24 not been nested under line 22's test of lib.
LibPathFlat(penv_path, existing) ==
    IF Join(penv_path, <<"lib", "python3.11">>) \in existing
    THEN Join(penv_path, <<"lib", "python3.11">>)
    ELSE IF Join(penv_path, <<"lib">>) \in existing
         THEN Join(penv_path, <<"Lib">>)
         ELSE Join(penv_path, <<"lib">>)

\* Lines 21-25: the library directory, by what exists under the penv.
LibPath(penv_path, existing) ==
    IF Join(penv_path, <<"lib">>) \in existing
    THEN IF Join(penv_path, <<"lib", "python3.11">>) \in existing
         THEN Join(penv_path, <<"lib", "python3.11">>)
         ELSE Join(penv_path, <<"lib">>)
    ELSE Join(penv_path, <<"Lib">>)

\* Lines 27-28: <lib>/site-packages/platformio/__init__.py
InitPath(lib_path) ==
    Join(Join(lib_path, <<"site-packages", "platformio">>), <<"__init__.py">>)

\* Lines 17-28 as one function of the interpreter path and the directories.
ResolveInitPath(python_path, existing) ==
    InitPath(LibPath(PenvPath(python_path), existing))

Roots == {PenvPath(P) : P \in Interpreters}

LibDirs(root) ==
    {Join(root, <<"Lib">>), Join(root, <<"lib">>), Join(root, <<"lib", "python3.11">>)}

\* Every file a run can resolve.
Candidates == {InitPath(l) : l \in UNION {LibDirs(r) : r \in Roots}}

\* A directory layout: under each root no lib, lib alone, or lib/python3.11.
Layout(lvl) ==
    UNION { IF lvl[r] = 0 THEN {}
            ELSE IF lvl[r] = 1 THEN {Join(r, <<"lib">>)}
            ELSE {Join(r, <<"lib">>), Join(r, <<"lib", "python3.11">>)}
            : r \in Roots }

DirLayouts == {Layout(lvl) : lvl \in [Roots -> 0..2]}

\* The layouts that are the same under every root.
UniformLayouts == {Layout([r \in Roots |-> n]) : n \in 0..2}

NoPath == <<>>

(* ------------------------------ state --------------------------------- *)

VARIABLES
    pio,          \* what `pio system info --json-output` comes to on this machine
    dirs,         \* the directories that exist (Path.exists of lines 22, 24)
    files,        \* the file system: per candidate path, exists / mode / data
    linesep,      \* os.linesep of the platform the script runs on
    pc,           \* per run: where it stands
    argc,         \* per run: len(sys.argv) - 1
    new_content,  \* per run: sys.argv[1] (line 48)
    info,         \* per run: info['python_exe']['value'] of json.loads(output), if any
    init_path,    \* per run: init_path of line 28
    content,      \* per run: content of lines 32 and 36
    exit,         \* per run: <<>> while running, <<status>> once ended
    err,          \* per run: how it ended
    stages,       \* per run: the stages completed, in order
    probed,       \* per run: whether pio was invoked (line 13)
    opened_r,     \* per run: the paths opened with mode 'r' (line 31)
    opened_w,     \* per run: the paths opened with mode 'w' (line 38)
    fresh,        \* per run: it read before any run had opened its file for writing
    orig,         \* the file system before the first run
    hist,         \* the runs that ended with status 0, in order
    runs          \* the runs launched so far

env == <<pio, dirs, linesep, orig>>
locals == <<argc, new_content, info, init_path, content>>
vars == <<pio, dirs, files, linesep, pc, argc, new_content, info, init_path, content,
          exit, err, stages, probed, opened_r, opened_w, fresh, orig, hist, runs>>

File(exists, mode, data) == [exists |-> exists, mode |-> mode, data |-> data]

\* The installation's __init__.py files: all as installed, or all missing,
\* unreadable or read-only.
Conditions == {"ok", "absent", "unreadable", "readonly"}

InstalledFile(cond, C) ==
    IF cond = "absent" THEN File(FALSE, "rw", <<>>)
    ELSE IF cond = "unreadable" THEN File(TRUE, "none", C)
    ELSE IF cond = "readonly" THEN File(TRUE, "ro", C)
    ELSE File(TRUE, "rw", C)

\* What check_output and json.loads can come to (lines 13-14): the command is
\* not found, exits non-zero, prints no JSON, or prints JSON with or without
\* python_exe.value.
Installed == {[kind |-> "json", python_exe |-> <<P>>] : P \in Interpreters}

ProbeOutcomes ==
    {[kind |-> k, python_exe |-> <<>>] : k \in {"unavailable", "nonzero", "badjson", "json"}}
    \cup Installed

InitWith(pios, layouts, conds) ==
    /\ pio \in pios
    /\ dirs \in layouts
    /\ linesep \in LineSeps
    /\ \E C \in Contents, cond \in conds :
           files = [f \in Candidates |-> InstalledFile(cond, C)]
    /\ orig = files
    /\ pc = [p \in Procs |-> "idle"]
    /\ argc = [p \in Procs |-> 0]
    /\ new_content = [p \in Procs |-> <<>>]
    /\ info = [p \in Procs |-> <<>>]
    /\ init_path = [p \in Procs |-> NoPath]
    /\ content = [p \in Procs |-> <<>>]
    /\ exit = [p \in Procs |-> <<>>]
    /\ err = [p \in Procs |-> "none"]
    /\ stages = [p \in Procs |-> <<>>]
    /\ probed = [p \in Procs |-> FALSE]
    /\ opened_r = [p \in Procs |-> {}]
    /\ opened_w = [p \in Procs |-> {}]
    /\ fresh = [p \in Procs |-> FALSE]
    /\ hist = <<>>
    /\ runs = 0

Init == InitWith(ProbeOutcomes, DirLayouts, Conditions)

\* A working installation: pio answers, the files are in order.
InitWorking == InitWith(Installed, UniformLayouts, {"ok"})

Running(p) == pc[p] \notin {"idle", "done"}

\* Raise, had the exception been swallowed (a bare except around the body).
RaiseSwallowed(p, exc) ==
    /\ pc' = [pc EXCEPT ![p] = "done"]
    /\ err' = [err EXCEPT ![p] = "none"]
    /\ exit' = [exit EXCEPT ![p] = <<0>>]

\* An uncaught exception: the interpreter prints the traceback and exits 1.
Raise(p, exc) ==
    /\ pc' = [pc EXCEPT ![p] = "done"]
    /\ err' = [err EXCEPT ![p] = exc]
    /\ exit' = [exit EXCEPT ![p] = <<1>>]

(* ------------------------------ __main__ ------------------------------ *)

\* WrongArgCount, had line 43 read len(sys.argv) < 2.
WrongArgCountLess(argv) == Len(argv) + 1 < 2

\* Line 43: len(sys.argv) != 2, sys.argv being the script name and argv.
WrongArgCount(argv) == Len(argv) + 1 # 2

\* Lines 42-49: the script is started with argv after the script name.
Launch(p) ==
    \E argv \in Argvs :
        /\ runs' = runs + 1
        /\ argc' = [argc EXCEPT ![p] = Len(argv)]
        /\ info' = [info EXCEPT ![p] = <<>>]
        /\ init_path' = [init_path EXCEPT ![p] = NoPath]
        /\ content' = [content EXCEPT ![p] = <<>>]
        /\ stages' = [stages EXCEPT ![p] = <<>>]
        /\ probed' = [probed EXCEPT ![p] = FALSE]
        /\ opened_r' = [opened_r EXCEPT ![p] = {}]
        /\ opened_w' = [opened_w EXCEPT ![p] = {}]
        /\ fresh' = [fresh EXCEPT ![p] = FALSE]
        /\ IF WrongArgCount(argv)
           THEN /\ pc' = [pc EXCEPT ![p] = "done"]
                /\ err' = [err EXCEPT ![p] = "usage"]
                /\ exit' = [exit EXCEPT ![p] = <<1>>]
                /\ new_content' = [new_content EXCEPT ![p] = <<>>]
           ELSE /\ pc' = [pc EXCEPT ![p] = "prober"]
                /\ err' = [err EXCEPT ![p] = "none"]
                /\ exit' = [exit EXCEPT ![p] = <<>>]
                /\ new_content' = [new_content EXCEPT ![p] = argv[1]]
        /\ UNCHANGED <<files, env, hist>>

\* The script is run once by process p.
Main(p) ==
    /\ pc[p] = "idle"
    /\ Launch(p)

\* The script is run again by process p, after its last run ended.
MainAgain(p) ==
    /\ pc[p] \in {"idle", "done"}
    /\ runs < MaxRuns
    /\ Launch(p)

(* ------------------------------ Prober -------------------------------- *)

\* ProbeError, had line 13 used subprocess.run(...).stdout of a pio that
\* prints its JSON and then exits non-zero: the exit status goes unchecked.
ProbeErrorUnchecked(out) ==
    IF out.kind = "unavailable" THEN "FileNotFoundError:pio"
    ELSE IF out.kind = "badjson" THEN "JSONDecodeError"
    ELSE "none"

\* Lines 13-14: the exception check_output or json.loads raises, if any.
ProbeError(out) ==
    IF out.kind = "unavailable" THEN "FileNotFoundError:pio"
    ELSE IF out.kind = "nonzero" THEN "CalledProcessError"
    ELSE IF out.kind = "badjson" THEN "JSONDecodeError"
    ELSE "none"

\* Lines 13-15.
Prober(p) ==
    /\ pc[p] = "prober"
    /\ probed' = [probed EXCEPT ![p] = TRUE]
    /\ IF ProbeError(pio) # "none"
       THEN Raise(p, ProbeError(pio)) /\ UNCHANGED <<info, stages>>
       ELSE /\ info' = [info EXCEPT ![p] = pio.python_exe]
            /\ stages' = [stages EXCEPT ![p] = Append(@, "Prober")]
            /\ pc' = [pc EXCEPT ![p] = "resolver"]
            /\ UNCHANGED <<exit, err>>
    /\ UNCHANGED <<files, env, argc, new_content, init_path, content,
                   opened_r, opened_w, fresh, hist, runs>>

(* ------------------------------ Resolver ------------------------------ *)

\* Lines 17-29.
Resolver(p) ==
    /\ pc[p] = "resolver"
    /\ IF info[p] = <<>>
       THEN Raise(p, "KeyError") /\ UNCHANGED <<init_path, stages>>
       ELSE /\ init_path' = [init_path EXCEPT ![p] = ResolveInitPath(info[p][1], dirs)]
            /\ stages' = [stages EXCEPT ![p] = Append(@, "Resolver")]
            /\ pc' = [pc EXCEPT ![p] = "read"]
            /\ UNCHANGED <<exit, err>>
    /\ UNCHANGED <<files, env, argc, new_content, info, content,
                   probed, opened_r, opened_w, fresh, hist, runs>>

(* ------------------------------ Patcher ------------------------------- *)

\* OpenedForRead, had line 31 opened with mode 'a+': a missing file is made.
OpenedForAppendRead(f) == File(TRUE, f.mode, f.data)

\* Line 31: open(init_path, 'r') leaves the file as it is, missing or not.
OpenedForRead(f) == f

\* Lines 31-36: read the whole file, build the new text.
PatcherRead(p) ==
    /\ pc[p] = "read"
    /\ LET f == files[init_path[p]]
       IN  /\ files' = [files EXCEPT ![init_path[p]] = OpenedForRead(f)]
           /\ IF ~f.exists
              THEN Raise(p, "FileNotFoundError") /\ UNCHANGED <<content, opened_r, fresh>>
              ELSE IF f.mode = "none"
              THEN Raise(p, "PermissionError:r") /\ UNCHANGED <<content, opened_r, fresh>>
              ELSE /\ content' = [content EXCEPT ![p] =
                                      NewContent(ReadText(f.data), new_content[p])]
                   /\ opened_r' = [opened_r EXCEPT ![p] = @ \cup {init_path[p]}]
                   /\ fresh' = [fresh EXCEPT ![p] =
                                    \A q \in Procs : init_path[p] \notin opened_w[q]]
                   /\ pc' = [pc EXCEPT ![p] = "open"]
                   /\ UNCHANGED <<exit, err>>
    /\ UNCHANGED <<env, argc, new_content, info, init_path,
                   stages, probed, opened_w, hist, runs>>

\* WritePath, had line 38 built the path anew from line 21's default.
WritePathDefault(p) == InitPath(Join(PenvPath(info[p][1]), <<"Lib">>))

\* The path lines 38-39 open and write: init_path again.
WritePath(p) == init_path[p]

\* Truncated, had line 38 opened with mode 'r+': the old content stays.
NotTruncated(f) == File(TRUE, f.mode, f.data)

\* Line 38: open(init_path, 'w') creates the file or cuts it to nothing.
Truncated(f) == File(TRUE, f.mode, <<>>)

PatcherOpen(p) ==
    /\ pc[p] = "open"
    /\ LET f == files[WritePath(p)]
       IN  IF f.exists /\ f.mode # "rw"
           THEN Raise(p, "PermissionError:w") /\ UNCHANGED <<files, opened_w>>
           ELSE /\ files' = [files EXCEPT ![WritePath(p)] = Truncated(f)]
                /\ opened_w' = [opened_w EXCEPT ![p] = @ \cup {WritePath(p)}]
                /\ pc' = [pc EXCEPT ![p] = "write"]
                /\ UNCHANGED <<exit, err>>
    /\ UNCHANGED <<env, locals, stages, probed, opened_r, fresh, hist, runs>>

\* Overlay, had line 38 opened with mode 'a': every write goes to the end.
OverlayAtEnd(written, data) == data \o written

\* The file after `written` went to it from offset 0: what lay beyond stays.
Overlay(written, data) == written \o SubSeq(data, Len(written) + 1, Len(data))

Min(a, b) == IF a <= b THEN a ELSE b

\* Lines 39-40: f.write(content), the close at the end of the with block,
\* the print, and the end of the script with status 0.
PatcherWrite(p) ==
    /\ pc[p] = "write"
    /\ LET f == files[WritePath(p)]
           out == WriteText(content[p], linesep)
       IN  files' = [files EXCEPT ![WritePath(p)] =
                         File(TRUE, f.mode, Overlay(out, f.data))]
    /\ stages' = [stages EXCEPT ![p] = Append(@, "Patcher")]
    /\ hist' = Append(hist, [path |-> WritePath(p), new_content |-> new_content[p]])
    /\ pc' = [pc EXCEPT ![p] = "done"]
    /\ exit' = [exit EXCEPT ![p] = <<0>>]
    /\ UNCHANGED <<err, env, locals, probed, opened_r, opened_w, fresh, runs>>

\* Line 39 failing (the disk is full, the device errs): only the first k
\* characters reach the file, and the OSError ends the run.  Nothing in the
\* script catches it or puts the old content back.
PatcherWriteFails(p) ==
    /\ pc[p] = "write"
    /\ LET f == files[WritePath(p)]
           out == WriteText(content[p], linesep)
       IN  \E k \in 0..Min(MaxPartial, Len(out) - 1) :
               files' = [files EXCEPT ![WritePath(p)] =
                             File(TRUE, f.mode, Overlay(SubSeq(out, 1, k), f.data))]
    /\ Raise(p, "OSError")
    /\ UNCHANGED <<env, locals, stages, probed, opened_r, opened_w, fresh, hist, runs>>

(* --------------------------- specifications --------------------------- *)

Step(p) ==
    \/ Prober(p)
    \/ Resolver(p)
    \/ PatcherRead(p)
    \/ PatcherOpen(p)
    \/ PatcherWrite(p)

\* The process of the one who runs the script by hand.
Operator == CHOOSE p \in Procs : p = 1

\* One run, on any machine, write failures included.
Next == Main(Operator) \/ Step(Operator) \/ PatcherWriteFails(Operator)

Spec == Init /\ [][Next]_vars

\* One run after the other on a working installation.
NextSeq == MainAgain(Operator) \/ Step(Operator)

SpecSeq == InitWorking /\ [][NextSeq]_vars

\* Two runs side by side on a working installation.
NextConc == \E p \in Procs : Main(p) \/ Step(p)

SpecConc == InitWorking /\ [][NextConc]_vars

(* ------------------------------ claims -------------------------------- *)

Ended(p) == pc[p] = "done"
Succeeded(p) == Ended(p) /\ exit[p] = <<0>>
OnDisk(text) == WriteText(text, linesep)

\* The example of the specification.
ExamplePython == <<"/", "opt", "env", ".platformio", "penv", "bin", "python">>
ExampleInit ==
    <<"/", "opt", "env", ".platformio", "penv", "Lib", "site-packages",
      "platformio", "__init__.py">>

\* The two lines as the specification writes them: the user string between
\* the brackets and nothing else.
StatedBlock(S) ==
    <<"\n">> \o MirrorPrefix \o S \o <<"]">> \o <<"\n">>
             \o CheckPrefix \o S \o <<"]">> \o <<"\n">>

\* C1: after a successful run with user string S on a file holding C, the
\* file holds exactly C, a newline, "__registry_mirror_hosts__ = [S]", a
\* newline, "__check_internet_hosts__ = [S]" and a newline.
C1_ExactAppend ==
    \A p \in Procs :
        Succeeded(p) =>
            files[init_path[p]].data
                = orig[init_path[p]].data \o StatedBlock(new_content[p])

\* C2: the resolved path is <libdir>/site-packages/platformio/__init__.py
\* under the grandparent of the interpreter path, libdir being Lib when lib
\* does not exist, lib when lib exists and lib/python3.11 does not, and
\* lib/python3.11 when both exist; the specification's example resolves to
\* /opt/env/.platformio/penv/Lib/site-packages/platformio/__init__.py.
C2_ResolvedPath ==
    \A p \in Procs :
        init_path[p] # NoPath =>
            LET P == info[p][1]
                root == SubSeq(P, 1, IF Len(P) > 2 THEN Len(P) - 2 ELSE 1)
                lib == (root \o <<"lib">>) \in dirs
                py == (root \o <<"lib", "python3.11">>) \in dirs
                tail == <<"site-packages", "platformio", "__init__.py">>
            IN  /\ ~lib => init_path[p] = root \o <<"Lib">> \o tail
                /\ lib /\ ~py => init_path[p] = root \o <<"lib">> \o tail
                /\ lib /\ py => init_path[p] = root \o <<"lib", "python3.11">> \o tail
                /\ (P = ExamplePython /\ ~lib) => init_path[p] = ExampleInit

C2_Witness ==
    /\ info[Operator] = <<ExamplePython>>
    /\ init_path[Operator] = ExampleInit
    /\ (<<"/", "lib">> \in dirs)

\* C3: a run with zero or with two or more arguments exits with status 1
\* and has not invoked pio nor read, created or modified any file.
C3_UsageExit ==
    \A p \in Procs :
        (pc[p] # "idle" /\ argc[p] # 1) =>
            /\ Ended(p) /\ exit[p] = <<1>> /\ err[p] = "usage"
            /\ ~probed[p]
            /\ opened_r[p] = {} /\ opened_w[p] = {}
            /\ files = orig

C3_Witness ==
    /\ Ended(Operator) /\ argc[Operator] = 2 /\ exit[Operator] = <<1>>
    /\ \E f \in Candidates : files[f].exists

\* C4: when pio is unavailable or exits non-zero, the run ends with a
\* non-zero status in the Prober: no path is resolved, no file is read or
\* written, and every file is as it was.
C4_ProbeFailure ==
    \A p \in Procs :
        (probed[p] /\ pio.kind \in {"unavailable", "nonzero"}) =>
            /\ Ended(p) /\ exit[p] # <<0>> /\ exit[p] # <<>>
            /\ err[p] \in {"FileNotFoundError:pio", "CalledProcessError"}
            /\ stages[p] = <<>>
            /\ init_path[p] = NoPath
            /\ opened_r[p] = {} /\ opened_w[p] = {}
            /\ files = orig

C4_Witness ==
    /\ Ended(Operator) /\ probed[Operator] /\ pio.kind = "nonzero"
    /\ exit[Operator] = <<1>>

\* The blocks the successful runs on file f appended, as they are on disk.
RECURSIVE BlocksOnDisk(_, _)
BlocksOnDisk(h, f) ==
    IF h = <<>> THEN <<>>
    ELSE (IF Head(h).path = f THEN OnDisk(Block(Head(h).new_content)) ELSE <<>>)
         \o BlocksOnDisk(Tail(h), f)

Patched(f) == \E i \in 1..Len(hist) : hist[i].path = f

Own(p) == OnDisk(NewContent(ReadText(orig[init_path[p]].data), new_content[p]))

\* What the runs p then q, one after the other, would have left.
Serial(p, q) ==
    OnDisk(NewContent(NewContent(ReadText(orig[init_path[p]].data), new_content[p]),
                      new_content[q]))

\* Both runs read the file before either opened it for writing, and both
\* ended with status 0.
Raced(p, q) ==
    /\ p # q
    /\ Succeeded(p) /\ Succeeded(q)
    /\ init_path[p] = init_path[q]
    /\ fresh[p] /\ fresh[q]

\* C6: nothing serialises two runs on the same file.  When both read before
\* either writes and both end with status 0, the file is not what the two
\* runs one after the other would have left: it starts with what one run
\* alone would have written and is no longer than the longer of the two
\* writes, so the lines of the other run are lost.
C6_LostUpdate ==
    \A p, q \in Procs :
        Raced(p, q) =>
            LET data == files[init_path[p]].data
            IN  /\ data # Serial(p, q) /\ data # Serial(q, p)
                /\ IsPrefix(Own(p), data) \/ IsPrefix(Own(q), data)
                /\ Len(data) <= Len(Own(p)) \/ Len(data) <= Len(Own(q))

C6_Witness ==
    /\ Raced(1, 2)
    /\ new_content[1] # new_content[2]
    /\ files[init_path[2]].data = Own(2)

\* The failures ahead of the write stage.
EarlyErrors == {"JSONDecodeError", "KeyError", "FileNotFoundError", "PermissionError:r"}

\* C7: a run that fails before the write stage (no JSON, no python_exe.value,
\* target missing or unreadable) ends with a non-zero status and leaves every
\* file as it was; a missing target is never created.
C7_EarlyFailure ==
    /\ \A p \in Procs :
           (Ended(p) /\ err[p] \in EarlyErrors) =>
               /\ exit[p] = <<1>>
               /\ opened_w[p] = {}
               /\ files = orig
    /\ \A f \in Candidates : ~orig[f].exists => ~files[f].exists

C7_Witness ==
    /\ Ended(Operator) /\ err[Operator] = "FileNotFoundError"
    /\ ~files[init_path[Operator]].exists

AllStages == <<"Prober", "Resolver", "Patcher">>

Exceptions ==
    EarlyErrors \cup {"FileNotFoundError:pio", "CalledProcessError", "PermissionError:w", "OSError"}

\* C8: a run ends with status 0 only with exactly one argument, the stages
\* Prober, Resolver, Patcher completed in that order and the full new content
\* in the file; the stages never complete in another order; and a run that
\* has ended is in exactly one of: usage exit (status 1), success (status 0),
\* uncaught error (non-zero status).
C8_Terminal ==
    \A p \in Procs :
        /\ IsPrefix(stages[p], AllStages)
        /\ Succeeded(p) =>
               /\ argc[p] = 1
               /\ stages[p] = AllStages
               /\ opened_r[p] = {init_path[p]} /\ opened_w[p] = {init_path[p]}
               /\ files[init_path[p]].data = OnDisk(content[p])
               /\ content[p] = ReadText(orig[init_path[p]].data) \o Block(new_content[p])
        /\ Ended(p) =>
               \/ err[p] = "usage" /\ exit[p] = <<1>> /\ argc[p] # 1 /\ stages[p] = <<>>
               \/ err[p] = "none" /\ exit[p] = <<0>> /\ stages[p] = AllStages
               \/ err[p] \in Exceptions /\ exit[p] = <<1>> /\ argc[p] = 1
                  /\ stages[p] # AllStages

C8_Witness ==
    /\ Succeeded(Operator)
    /\ files[init_path[Operator]].data # orig[init_path[Operator]].data

\* C9: a run opens at most one file for writing, the file it read, at the
\* path the Resolver gave; a step changes no other file, and no step changes
\* which directories exist.
C9_Frame ==
    /\ [](\A p \in Procs :
              /\ Cardinality(opened_w[p]) <= 1
              /\ opened_w[p] \subseteq opened_r[p]
              /\ opened_r[p] \subseteq {init_path[p]})
    /\ [][/\ dirs' = dirs
          /\ \A f \in Candidates :
                 files'[f] # files[f] =>
                     \E p \in Procs : Running(p) /\ f = init_path[p] /\ f \in opened_r[p]]_vars

C9_Witness ==
    /\ Succeeded(Operator)
    /\ \E f \in Candidates : f # init_path[Operator] /\ files[f].exists
    /\ \A f \in Candidates : f # init_path[Operator] => files[f] = orig[f]
    /\ files[init_path[Operator]] # orig[init_path[Operator]]
    /\ dirs # {}

IsStrictPrefix(s, t) == IsPrefix(s, t) /\ Len(s) < Len(t)

\* C10 as stated: when the write fails after the open, the run ends with a
\* non-zero status and the file holds neither the original content nor the
\* full new content.
C10_NeitherOldNorNew ==
    \A p \in Procs :
        (Ended(p) /\ err[p] = "OSError") =>
            /\ exit[p] # <<0>>
            /\ files[init_path[p]].data # orig[init_path[p]].data
            /\ files[init_path[p]].data # OnDisk(content[p])

\* C10 as amended: when the write fails after the open, the run ends with a
\* non-zero status and the file holds a strict prefix of the full new content,
\* the empty one included, and never the full new content.  Nothing puts the
\* original back: the file equals it only when that prefix is the original
\* itself, as for an original that was empty.
C10_StrictPrefix ==
    \A p \in Procs :
        (Ended(p) /\ err[p] = "OSError") =>
            /\ exit[p] = <<1>>
            /\ init_path[p] \in opened_w[p]
            /\ IsStrictPrefix(files[init_path[p]].data, OnDisk(content[p]))

C10_Witness ==
    /\ Ended(Operator) /\ err[Operator] = "OSError"
    /\ orig[init_path[Operator]].data # <<>>
    /\ files[init_path[Operator]].data # orig[init_path[Operator]].data
    /\ files[init_path[Operator]].data # <<>>

====
